---- MODULE Spec2Model ----
(***************************************************************************)
(* Model of the limit selector emitted by dev-tools/buildlimits: the       *)
(* generated package `config` (the template text of buildlimits.go).       *)
(*                                                                         *)
(* State: the packed spec files, the target architecture, the package-     *)
(* level catalog `defaults` (a slice of pointers), the heap the pointers   *)
(* point into, and the latest call of initLimits / loadLimits /            *)
(* loadLimitsForAgents with what it returned and logged.  The functions    *)
(* keep nothing per caller, so calls by different callers are the same     *)
(* steps.                                                                  *)
(***************************************************************************)
EXTENDS Integers, Sequences, FiniteSets, TLC

VARIABLES GOARCH, packed, pc, defaults, heap, rangeOrder, calls, last

vars == <<GOARCH, packed, pc, defaults, heap, rangeOrder, calls, last>>

(***************************************************************************)
(* Bounds of the model.                                                    *)
(***************************************************************************)
MaxFiles == 2
MaxCalls == 2

(***************************************************************************)
(* Go's int and int64.  TLC's own integers are 32 bits wide, so a Go       *)
(* integer is kept as a sign and a magnitude of four 16-bit limbs, most    *)
(* significant first.                                                      *)
(***************************************************************************)
Limb == 2^16

W(n) ==
    IF n >= 0
    THEN [neg |-> FALSE, mag |-> <<0, 0, n \div Limb, n % Limb>>]
    ELSE [neg |-> TRUE, mag |-> <<0, 0, (-n) \div Limb, (-n) % Limb>>]

MagLess(a, b) ==
    \E i \in 1..4 : a[i] < b[i] /\ \A j \in 1..(i - 1) : a[j] = b[j]

WLess(a, b) ==
    CASE a.neg /\ ~b.neg -> TRUE
      [] ~a.neg /\ b.neg -> FALSE
      [] a.neg /\ b.neg  -> MagLess(b.mag, a.mag)
      [] OTHER           -> MagLess(a.mag, b.mag)

WLeq(a, b) == a = b \/ WLess(a, b)

\* math.MaxInt64 and math.MaxInt32
MaxInt64 == [neg |-> FALSE, mag |-> <<2^15 - 1, Limb - 1, Limb - 1, Limb - 1>>]
MaxInt32 == [neg |-> FALSE, mag |-> <<0, 0, 2^15 - 1, Limb - 1>>]

(***************************************************************************)
(* runtime.GOARCH, a string, kept as its sequence of characters.           *)
(***************************************************************************)
amd64   == <<"a", "m", "d", "6", "4">>
i386    == <<"3", "8", "6">>
s390x   == <<"s", "3", "9", "0", "x">>
ppc64le == <<"p", "p", "c", "6", "4", "l", "e">>

Archs == {amd64, i386, s390x, ppc64le}

\* The width of Go's int on the target: 32 bits on 386, 64 on the others here.
IntBits(arch) == IF arch = i386 THEN 32 ELSE 64

HasSuffix(s, suffix) ==
    /\ Len(s) >= Len(suffix)
    /\ SubSeq(s, Len(s) - Len(suffix) + 1, Len(s)) = suffix

getMaxInt(arch) ==
    IF HasSuffix(arch, <<"6", "4">>) THEN MaxInt64 ELSE MaxInt32

\* int(x) of an int64 x >= 0: the low IntBits bits, two's complement.
ToInt(arch, x) ==
    IF IntBits(arch) = 64 THEN x
    ELSE LET hi == x.mag[3]
             lo == x.mag[4]
         IN  IF hi < 2^15
             THEN [neg |-> FALSE, mag |-> <<0, 0, hi, lo>>]
             ELSE IF lo = 0
                  THEN [neg |-> TRUE, mag |-> <<0, 0, Limb - hi, 0>>]
                  ELSE [neg |-> TRUE, mag |-> <<0, 0, Limb - 1 - hi, Limb - lo>>]

MinInt32 == [neg |-> TRUE, mag |-> <<0, 0, 2^15, 0>>]

\* Whether x is a value of Go's int on the target.
FitsInt(arch, x) ==
    IntBits(arch) = 64 \/ (WLeq(MinInt32, x) /\ WLeq(x, MaxInt32))

(***************************************************************************)
(* The default constants (time.Duration counts nanoseconds).               *)
(***************************************************************************)
Millisecond == 1000 * 1000

defaultCacheNumCounters == 500000
defaultCacheMaxCost     == 50 * 1024 * 1024

defaultMaxConnections == 0
defaultPolicyThrottle == Millisecond * 5

defaultCheckinInterval == Millisecond
defaultCheckinBurst    == 1000
defaultCheckinMax      == 0
defaultCheckinMaxBody  == 1024 * 1024

defaultArtifactInterval == Millisecond * 5
defaultArtifactBurst    == 25
defaultArtifactMax      == 50
defaultArtifactMaxBody  == 0

defaultEnrollInterval == Millisecond * 10
defaultEnrollBurst    == 100
defaultEnrollMax      == 50
defaultEnrollMaxBody  == 1024 * 512

defaultAckInterval == Millisecond * 10
defaultAckBurst    == 100
defaultAckMax      == 50
defaultAckMaxBody  == 1024 * 1024 * 2

(***************************************************************************)
(* The default constructors.  Each returns a pointer to a new object: the  *)
(* heap is a sequence of objects and a pointer is an index into it.        *)
(***************************************************************************)
defaultCacheLimits ==
    [NumCounters |-> defaultCacheNumCounters,
     MaxCost     |-> defaultCacheMaxCost]

defaultserverLimitDefaults ==
    [PolicyThrottle |-> defaultCacheNumCounters,
     MaxConnections |-> defaultCacheMaxCost,
     CheckinLimit   |-> [Interval |-> defaultCheckinInterval,
                         Burst    |-> defaultCheckinBurst,
                         Max      |-> defaultCheckinMax,
                         MaxBody  |-> defaultCheckinMaxBody],
     ArtifactLimit  |-> [Interval |-> defaultArtifactInterval,
                         Burst    |-> defaultArtifactBurst,
                         Max      |-> defaultArtifactMax,
                         MaxBody  |-> defaultArtifactMaxBody],
     EnrollLimit    |-> [Interval |-> defaultEnrollInterval,
                         Burst    |-> defaultEnrollBurst,
                         Max      |-> defaultEnrollMax,
                         MaxBody  |-> defaultEnrollMaxBody],
     AckLimit       |-> [Interval |-> defaultAckInterval,
                         Burst    |-> defaultAckBurst,
                         Max      |-> defaultAckMax,
                         MaxBody  |-> defaultAckMaxBody]]

\* defaultEnvLimits(): allocates the server limits, the cache limits and the
\* envLimits that points to both; RecommendedRAM keeps Go's zero value.
defaultEnvLimits(h, arch) ==
    LET server == Len(h) + 1
        cache  == Len(h) + 2
        env    == Len(h) + 3
    IN  [heap |-> h \o <<defaultserverLimitDefaults,
                         defaultCacheLimits,
                         [Agents         |-> [Min |-> W(0),
                                              Max |-> ToInt(arch, getMaxInt(arch))],
                          RecommendedRAM |-> 0,
                          Server         |-> server,
                          Cache          |-> cache]>>,
         ptr  |-> env]

\* An envLimits with its two pointers followed: the profile as a value.
Profile(h, p) ==
    [Agents         |-> h[p].Agents,
     RecommendedRAM |-> h[p].RecommendedRAM,
     Server         |-> h[h[p].Server],
     Cache          |-> h[h[p].Cache]]

(***************************************************************************)
(* The packed spec files.  A YAML document is a mapping from the keys it   *)
(* holds (the `config:"..."` tags) to values; a key it omits is not in its *)
(* domain.  A file is "ok", or yaml.NewConfig rejects it ("badyaml"), or   *)
(* cfg.Unpack rejects it ("badtype": a value of the wrong type).           *)
(***************************************************************************)
MiB == 1024 * 1024

specSmall ==
    [num_agents          |-> [min |-> W(0), max |-> W(10)],
     recommended_min_ram |-> 1024]

specMedium ==
    [num_agents          |-> [min |-> W(10), max |-> W(100)],
     recommended_min_ram |-> 512,
     cache_limits        |-> [num_counters |-> 2000]]

specOverlap ==
    [num_agents    |-> [min |-> W(5), max |-> W(50)],
     server_limits |-> [max_connections |-> 100,
                        checkin_limit   |-> [burst |-> 50]]]

\* Overrides nothing: the one key it holds has the default's value.
specNoRange == [recommended_min_ram |-> 0]

\* A range with min >= max, which nothing rejects.
specBackward == [num_agents |-> [min |-> W(10), max |-> W(5)]]

\* The spec directory, in the order the packer lists its files.
Directory ==
    <<[kind |-> "ok", doc |-> specSmall],
      [kind |-> "ok", doc |-> specMedium],
      [kind |-> "ok", doc |-> specOverlap],
      [kind |-> "ok", doc |-> specNoRange],
      [kind |-> "ok", doc |-> specBackward],
      [kind |-> "badyaml", doc |-> specNoRange],
      [kind |-> "badtype", doc |-> specSmall]>>

\* memory.TotalMemory(), in bytes.
TotalMemoryValues == {512 * MiB, 1024 * MiB - 1, 1024 * MiB}

\* The agentLimit arguments tried: the bounds of the ranges above and of the
\* default range on both word sizes, and the value past each.
AgentLimits ==
    {W(0), W(5), W(10), W(50), W(100), MaxInt32,
     [neg |-> FALSE, mag |-> <<0, 0, 2^15, 0>>], MaxInt64}

(***************************************************************************)
(* cfg.Unpack(&l): every key the document holds overwrites the field its   *)
(* tag names; the fields of a struct behind a pointer are written in       *)
(* place.                                                                  *)
(***************************************************************************)
Get(y, k, d) == IF k \in DOMAIN y THEN y[k] ELSE d

NoKeys == [k \in {} |-> 0]

Sub(y, k) == IF k \in DOMAIN y THEN y[k] ELSE NoKeys

unpackValueRange(r, y) ==
    [Min |-> Get(y, "min", r.Min),
     Max |-> Get(y, "max", r.Max)]

unpackLimit(l, y) ==
    [Interval |-> Get(y, "interval", l.Interval),
     Burst    |-> Get(y, "burst", l.Burst),
     Max      |-> Get(y, "max", l.Max),
     MaxBody  |-> Get(y, "max_body_byte_size", l.MaxBody)]

unpackServerLimitDefaults(s, y) ==
    [PolicyThrottle |-> Get(y, "policy_throttle", s.PolicyThrottle),
     MaxConnections |-> Get(y, "max_connections", s.MaxConnections),
     CheckinLimit   |-> unpackLimit(s.CheckinLimit, Sub(y, "checkin_limit")),
     ArtifactLimit  |-> unpackLimit(s.ArtifactLimit, Sub(y, "artifact_limit")),
     EnrollLimit    |-> unpackLimit(s.EnrollLimit, Sub(y, "enroll_limit")),
     AckLimit       |-> unpackLimit(s.AckLimit, Sub(y, "ack_limit"))]

unpackCacheLimits(c, y) ==
    [NumCounters |-> Get(y, "num_counters", c.NumCounters),
     MaxCost     |-> Get(y, "max_cost", c.MaxCost)]

Unpack(h, l, y) ==
    [h EXCEPT
       ![l] = [Agents         |-> unpackValueRange(h[l].Agents, Sub(y, "num_agents")),
               RecommendedRAM |-> Get(y, "recommended_min_ram", h[l].RecommendedRAM),
               Server         |-> h[l].Server,
               Cache          |-> h[l].Cache],
       ![h[l].Server] = unpackServerLimitDefaults(h[h[l].Server], Sub(y, "server_limits")),
       ![h[l].Cache]  = unpackCacheLimits(h[h[l].Cache], Sub(y, "cache_limits"))]

(***************************************************************************)
(* The package's init(): one pass of `for f, v := range unpacked`.  st is  *)
(* [heap, defaults, panicked]; a panic ends the pass.                      *)
(***************************************************************************)
\* Faulty variant: a file that cannot be read or unpacked is skipped, not fatal.
initStep_SkipBad(st, file, arch) ==
    IF file.kind # "ok"
    THEN st
    ELSE LET l == defaultEnvLimits(st.heap, arch)
         IN  [heap     |-> Unpack(l.heap, l.ptr, file.doc),
              defaults |-> Append(st.defaults, l.ptr),
              panicked |-> FALSE]

initStep(st, file, arch) ==
    IF file.kind = "badyaml"
    THEN [st EXCEPT !.panicked = TRUE]
    ELSE LET l == defaultEnvLimits(st.heap, arch)
         IN  IF file.kind = "badtype"
             THEN [heap |-> l.heap, defaults |-> st.defaults, panicked |-> TRUE]
             ELSE [heap     |-> Unpack(l.heap, l.ptr, file.doc),
                   defaults |-> Append(st.defaults, l.ptr),
                   panicked |-> FALSE]

RECURSIVE initLoop(_, _, _, _)
initLoop(st, order, files, arch) ==
    IF order = <<>> \/ st.panicked
    THEN st
    ELSE initLoop(initStep(st, files[Head(order)], arch), Tail(order), files, arch)

\* unpacked is a map keyed by file name (f is concatenated to a string), and
\* Go leaves the order of a range over a map unspecified: any order of the
\* files can be the one the loop takes.
RangeOrders(files) ==
    {o \in [1..Len(files) -> 1..Len(files)] :
        \A i, j \in 1..Len(files) : i # j => o[i] # o[j]}

(***************************************************************************)
(* loadLimitsForAgents.                                                    *)
(***************************************************************************)
\* Faulty variant: the lower bound is inclusive.
Matches_InclusiveMin(l, agentLimit) ==
    WLeq(l.Agents.Min, agentLimit) /\ WLeq(agentLimit, l.Agents.Max)

\* Faulty variant: the upper bound is exclusive.
Matches_ExclusiveMax(l, agentLimit) ==
    WLess(l.Agents.Min, agentLimit) /\ WLess(agentLimit, l.Agents.Max)

Matches(l, agentLimit) ==
    WLess(l.Agents.Min, agentLimit) /\ WLeq(agentLimit, l.Agents.Max)

ramSize(totalMemory) == (totalMemory \div 1024) \div 1024

\* Faulty variant: warns when the RAM equals the recommended amount too.
matchLog_WarnAtEqual(l, totalMemory) ==
    <<"info:using">> \o
    (IF ramSize(totalMemory) <= l.RecommendedRAM THEN <<"warn:ram">> ELSE <<>>)

matchLog(l, totalMemory) ==
    <<"info:using">> \o
    (IF ramSize(totalMemory) < l.RecommendedRAM THEN <<"warn:ram">> ELSE <<>>)

noMatch(h, arch) ==
    LET l == defaultEnvLimits(h, arch)
    IN  [heap |-> l.heap, ret |-> l.ptr, log |-> <<"info:none">>]

RECURSIVE rangeDefaults(_, _, _, _, _, _)
rangeDefaults(h, defs, i, agentLimit, totalMemory, arch) ==
    IF i > Len(defs)
    THEN noMatch(h, arch)
    ELSE IF Matches(h[defs[i]], agentLimit)
         THEN [heap |-> h, ret |-> defs[i], log |-> matchLog(h[defs[i]], totalMemory)]
         ELSE rangeDefaults(h, defs, i + 1, agentLimit, totalMemory, arch)

\* Faulty variant: the loop starts at the second entry.
loadLimitsForAgents_SkipFirst(h, defs, agentLimit, totalMemory, arch) ==
    rangeDefaults(h, defs, 2, agentLimit, totalMemory, arch)

loadLimitsForAgents(h, defs, agentLimit, totalMemory, arch) ==
    rangeDefaults(h, defs, 1, agentLimit, totalMemory, arch)

loadLimits(h, defs, agentLimit, totalMemory, arch) ==
    loadLimitsForAgents(h, defs, agentLimit, totalMemory, arch)

initLimits(h, defs, totalMemory, arch) ==
    loadLimits(h, defs, W(0), totalMemory, arch)

(***************************************************************************)
(* The state machine.                                                      *)
(***************************************************************************)
NoCall ==
    [fn |-> "none", agentLimit |-> W(0), totalMemory |-> 0,
     ret |-> 0, log |-> <<>>, heapBefore |-> 0]

\* What is packed: up to MaxFiles files of the directory, in its order.
Packings ==
    LET picks == UNION {[1..n -> 1..Len(Directory)] : n \in 0..MaxFiles}
        listed(s) == \A i, j \in 1..Len(s) : i < j => s[i] < s[j]
    IN  {[i \in 1..Len(s) |-> Directory[s[i]]] : s \in {t \in picks : listed(t)}}

Init ==
    /\ GOARCH \in Archs
    /\ packed \in Packings
    /\ pc = "start"
    /\ defaults = <<>>
    /\ heap = <<>>
    /\ rangeOrder = <<>>
    /\ calls = 0
    /\ last = NoCall

\* The Go runtime runs init() once, before main and so before any caller.
PkgInit ==
    /\ pc = "start"
    /\ \E order \in RangeOrders(packed) :
          LET st == initLoop([heap |-> heap, defaults |-> defaults, panicked |-> FALSE],
                             order, packed, GOARCH)
          IN  /\ heap' = st.heap
              /\ defaults' = st.defaults
              /\ rangeOrder' = order
              /\ pc' = IF st.panicked THEN "panicked" ELSE "ready"
    /\ UNCHANGED <<GOARCH, packed, calls, last>>

Returned(fn, agentLimit, totalMemory, r) ==
    /\ heap' = r.heap
    /\ last' = [fn |-> fn, agentLimit |-> agentLimit,
                totalMemory |-> totalMemory, ret |-> r.ret, log |-> r.log,
                heapBefore |-> Len(heap)]
    /\ calls' = calls + 1

InitLimits ==
    /\ pc = "ready"
    /\ calls < MaxCalls
    /\ \E totalMemory \in TotalMemoryValues :
          Returned("initLimits", W(0), totalMemory,
                   initLimits(heap, defaults, totalMemory, GOARCH))
    /\ UNCHANGED <<GOARCH, packed, pc, defaults, rangeOrder>>

LoadLimits(agentLimit) ==
    /\ pc = "ready"
    /\ calls < MaxCalls
    /\ FitsInt(GOARCH, agentLimit)
    /\ \E totalMemory \in TotalMemoryValues :
          Returned("loadLimits", agentLimit, totalMemory,
                   loadLimits(heap, defaults, agentLimit, totalMemory, GOARCH))
    /\ UNCHANGED <<GOARCH, packed, pc, defaults, rangeOrder>>

\* Faulty variant: a default built on the no-match path is kept in the catalog.
LoadLimitsForAgents_KeepDefault(agentLimit) ==
    /\ pc = "ready"
    /\ calls < MaxCalls
    /\ FitsInt(GOARCH, agentLimit)
    /\ \E totalMemory \in TotalMemoryValues :
          LET r == loadLimitsForAgents(heap, defaults, agentLimit, totalMemory, GOARCH)
          IN  /\ Returned("loadLimitsForAgents", agentLimit, totalMemory, r)
              /\ defaults' = IF r.ret > Len(heap) THEN Append(defaults, r.ret)
                                                  ELSE defaults
    /\ UNCHANGED <<GOARCH, packed, pc, rangeOrder>>

LoadLimitsForAgents(agentLimit) ==
    /\ pc = "ready"
    /\ calls < MaxCalls
    /\ FitsInt(GOARCH, agentLimit)
    /\ \E totalMemory \in TotalMemoryValues :
          Returned("loadLimitsForAgents", agentLimit, totalMemory,
                   loadLimitsForAgents(heap, defaults, agentLimit, totalMemory, GOARCH))
    /\ UNCHANGED <<GOARCH, packed, pc, defaults, rangeOrder>>

Next ==
    \/ PkgInit
    \/ InitLimits
    \/ \E a \in AgentLimits : LoadLimits(a)
    \/ \E a \in AgentLimits : LoadLimitsForAgents(a)

Spec == Init /\ [][Next]_vars

(***************************************************************************)
(* Vocabulary of the properties.                                           *)
(***************************************************************************)
Range(f) == {f[i] : i \in DOMAIN f}

Called == last.fn # "none"

\* The profile a default-built envLimits holds on this target.
DefaultProfile ==
    LET d == defaultEnvLimits(<<>>, GOARCH) IN Profile(d.heap, d.ptr)

\* The bracket test as the specification words it: min < a <= max.
InRange(p, a) == WLess(p.Agents.Min, a) /\ WLeq(a, p.Agents.Max)

\* The catalog entries whose range covers a, and the lowest of them.
Covering(a) == {i \in DOMAIN defaults : InRange(Profile(heap, defaults[i]), a)}

Lowest(S) == CHOOSE i \in S : \A j \in S : i <= j

\* The latest call took the no-match path: it returned an object of its own,
\* allocated during the call, and logged so.
OnDefaultPath ==
    /\ last.ret > last.heapBefore
    /\ last.ret \notin Range(defaults)
    /\ last.log = <<"info:none">>

\* C1 as stated: the latest call returned the lowest-index catalog entry
\* covering agentLimit, and what it returned equals DefaultProfile if and only
\* if no entry covers agentLimit.
C1_Original ==
    Called =>
       LET M == Covering(last.agentLimit)
       IN  /\ last.ret \in 1..Len(heap)
           /\ M # {} => last.ret = defaults[Lowest(M)]
           /\ (Profile(heap, last.ret) = DefaultProfile) <=> (M = {})

\* C1 (amended): every call returns exactly one profile: the lowest-index
\* catalog entry covering agentLimit when there is one, and otherwise, and only
\* then, a newly built profile that is no catalog entry and equals
\* DefaultProfile.
C1_FirstMatchOrNewDefault ==
    Called =>
       LET M == Covering(last.agentLimit)
       IN  /\ last.ret \in 1..Len(heap)
           /\ M # {} => last.ret = defaults[Lowest(M)]
           /\ M = {} => Profile(heap, last.ret) = DefaultProfile
           /\ OnDefaultPath <=> (M = {})

\* A call that passed over the first entry and returned the second.
C1_Witness ==
    /\ Called
    /\ Len(defaults) = 2
    /\ last.ret = defaults[2]
    /\ Covering(last.agentLimit) = {2}

\* C2 as stated, read in its favour: a call with agentLimit equal to the max
\* of a catalog entry returns that entry or one equal to it, asked only of the
\* entries with min < max, the ranges the data model expects.
C2_Original ==
    Called =>
       \A i \in DOMAIN defaults :
          (/\ last.agentLimit = heap[defaults[i]].Agents.Max
           /\ WLess(heap[defaults[i]].Agents.Min, heap[defaults[i]].Agents.Max))
             => Profile(heap, last.ret) = Profile(heap, defaults[i])

\* C2 (amended): a call with agentLimit equal to the max of a catalog entry p
\* returns p when p.min < p.max and no earlier entry covers that value.
C2_InclusiveMax ==
    Called =>
       \A i \in DOMAIN defaults :
          LET p == heap[defaults[i]]
          IN  (/\ last.agentLimit = p.Agents.Max
               /\ WLess(p.Agents.Min, p.Agents.Max)
               /\ \A j \in 1..(i - 1) :
                     ~InRange(Profile(heap, defaults[j]), last.agentLimit))
                 => last.ret = defaults[i]

\* A call at the max of the second entry, which the first does not cover.
C2_Witness ==
    /\ Called
    /\ Len(defaults) = 2
    /\ last.agentLimit = heap[defaults[2]].Agents.Max
    /\ last.ret = defaults[2]

\* C3: a call with agentLimit equal to the min of a catalog entry p does not
\* return p: it returns another entry whose range covers the value, or a
\* default built on the no-match path.
C3_ExclusiveMin ==
    Called =>
       \A i \in DOMAIN defaults :
          last.agentLimit = heap[defaults[i]].Agents.Min
             => /\ last.ret # defaults[i]
                /\ \/ \E j \in DOMAIN defaults \ {i} :
                         /\ last.ret = defaults[j]
                         /\ InRange(Profile(heap, defaults[j]), last.agentLimit)
                   \/ /\ OnDefaultPath
                      /\ Profile(heap, last.ret) = DefaultProfile

\* A call at the min of one entry that another entry covers and is returned.
C3_Witness ==
    /\ Called
    /\ \E i, j \in DOMAIN defaults :
          /\ i # j
          /\ last.agentLimit = heap[defaults[i]].Agents.Min
          /\ last.ret = defaults[j]

(***************************************************************************)
(* The default-overlay merge as the specification words it, field by       *)
(* field: each field of the profile is paired with the key that sets it.   *)
(***************************************************************************)
LimitFields(field, key) ==
    {[field |-> <<"Server", field, "Interval">>,
      key   |-> <<"server_limits", key, "interval">>],
     [field |-> <<"Server", field, "Burst">>,
      key   |-> <<"server_limits", key, "burst">>],
     [field |-> <<"Server", field, "Max">>,
      key   |-> <<"server_limits", key, "max">>],
     [field |-> <<"Server", field, "MaxBody">>,
      key   |-> <<"server_limits", key, "max_body_byte_size">>]}

Fields ==
    {[field |-> <<"Agents", "Min">>, key |-> <<"num_agents", "min">>],
     [field |-> <<"Agents", "Max">>, key |-> <<"num_agents", "max">>],
     [field |-> <<"RecommendedRAM">>, key |-> <<"recommended_min_ram">>],
     [field |-> <<"Server", "PolicyThrottle">>,
      key   |-> <<"server_limits", "policy_throttle">>],
     [field |-> <<"Server", "MaxConnections">>,
      key   |-> <<"server_limits", "max_connections">>],
     [field |-> <<"Cache", "NumCounters">>,
      key   |-> <<"cache_limits", "num_counters">>],
     [field |-> <<"Cache", "MaxCost">>,
      key   |-> <<"cache_limits", "max_cost">>]}
    \cup LimitFields("CheckinLimit", "checkin_limit")
    \cup LimitFields("ArtifactLimit", "artifact_limit")
    \cup LimitFields("EnrollLimit", "enroll_limit")
    \cup LimitFields("AckLimit", "ack_limit")

RECURSIVE At(_, _)
At(v, path) == IF path = <<>> THEN v ELSE At(v[Head(path)], Tail(path))

RECURSIVE Holds(_, _)
Holds(y, path) ==
    \/ path = <<>>
    \/ Head(path) \in DOMAIN y /\ Holds(y[Head(path)], Tail(path))

\* What field f of a profile overlaid from doc is to be.
Overlaid(doc, f) ==
    IF Holds(doc, f.key) THEN At(doc, f.key) ELSE At(DefaultProfile, f.field)

IsOverlayOf(profile, doc) ==
    \A f \in Fields : At(profile, f.field) = Overlaid(doc, f)

AllReadable == \A i \in DOMAIN packed : packed[i].kind = "ok"

\* C4: construction is fail-fast.  Once a file that cannot be read or unpacked
\* is among those packed, init() panics and no call ever runs; whenever the
\* package is ready or a call has run, every file is readable and the catalog
\* holds one entry per file, none skipped: its entries are the overlays of the
\* files in the order the loop visited them, each file visited once.
C4_FailFast ==
    /\ (~AllReadable /\ pc # "start") => (pc = "panicked" /\ ~Called)
    /\ (pc = "ready" \/ Called) =>
          /\ AllReadable
          /\ Len(defaults) = Len(packed)
          /\ Range(rangeOrder) = DOMAIN packed
          /\ \A i \in DOMAIN defaults :
                IsOverlayOf(Profile(heap, defaults[i]), packed[rangeOrder[i]].doc)

\* init() panicked with an entry already appended: a partial catalog that no
\* call can reach.
C4_Witness ==
    /\ pc = "panicked"
    /\ Len(defaults) >= 1
    /\ Len(packed) > Len(defaults)

\* platformRAMMegabytes: the total memory in whole mebibytes.
platformRAMMegabytes == last.totalMemory \div MiB

\* The heap as it was when the latest call started.
HeapBefore == SubSeq(heap, 1, last.heapBefore)

\* C6: the RAM warning is advisory.  The latest call warned if and only if a
\* catalog entry covered agentLimit and the platform has less RAM than the
\* first such entry recommends, so never on the no-match path; and the same
\* call with any other amount of RAM returns the same profile.
C6_RamWarningAdvisory ==
    Called =>
       LET M == Covering(last.agentLimit)
       IN  /\ ("warn:ram" \in Range(last.log)) <=>
                 (/\ M # {}
                  /\ platformRAMMegabytes
                        < heap[defaults[Lowest(M)]].RecommendedRAM)
           /\ OnDefaultPath => "warn:ram" \notin Range(last.log)
           /\ \A m \in TotalMemoryValues :
                 loadLimitsForAgents(HeapBefore, defaults, last.agentLimit,
                                     m, GOARCH).ret = last.ret

\* A call that warned: 1023 MB of RAM against a recommended 1024.
C6_Witness ==
    /\ Called
    /\ "warn:ram" \in Range(last.log)
    /\ platformRAMMegabytes = 1023
    /\ last.ret \in Range(defaults)

\* The catalog as values: what each entry holds, pointers followed.
Catalog == [i \in DOMAIN defaults |-> Profile(heap, defaults[i])]

\* C7: the catalog is built once, before the first call, and never changes
\* afterwards: a call has run only when init() has completed, and only the
\* step from "start" (init itself) changes the catalog's length, order or any
\* field of any entry; no step leads back to "start".
C7_BuiltOnceThenImmutable ==
    /\ [](Called => pc = "ready")
    /\ [][/\ pc # "start" => /\ pc' = pc
                             /\ defaults' = defaults
                             /\ Catalog' = Catalog
          /\ pc = "start" => ~Called]_vars

\* Two calls have run against a catalog of two entries, the latest of them
\* initLimits.
C7_Witness ==
    /\ pc = "ready"
    /\ calls >= 2
    /\ Len(defaults) = 2
    /\ last.fn = "initLimits"

(***************************************************************************)
(* The greatest signed integer of a word of `bits` bits, 2^(bits-1) - 1:   *)
(* bits-1 one bits, of which limb i (0 the least significant) holds those  *)
(* numbered 16*i to 16*i + 15.                                             *)
(***************************************************************************)
OnesInLimb(n, i) ==
    IF n - 16 * i >= 16 THEN 16
    ELSE IF n - 16 * i <= 0 THEN 0
    ELSE n - 16 * i

SignedMax(bits) ==
    [neg |-> FALSE,
     mag |-> <<2^OnesInLimb(bits - 1, 3) - 1, 2^OnesInLimb(bits - 1, 2) - 1,
               2^OnesInLimb(bits - 1, 1) - 1, 2^OnesInLimb(bits - 1, 0) - 1>>]

\* C5: the default profile's agent range is (0, the greatest signed integer of
\* the target's word size]: 2^63-1 on a 64-bit target, 2^31-1 on a 32-bit one.
\* Asked of the profile a call built on the no-match path.
C5_DefaultMaxIsWordMax ==
    (Called /\ OnDefaultPath) =>
       heap[last.ret].Agents = [Min |-> W(0), Max |-> SignedMax(IntBits(GOARCH))]

\* The catalog the files give when they are taken in the order supplied.
SuppliedRange(i) ==
    [Agents |->
       [Min |-> Overlaid(packed[i].doc,
                         [field |-> <<"Agents", "Min">>, key |-> <<"num_agents", "min">>]),
        Max |-> Overlaid(packed[i].doc,
                         [field |-> <<"Agents", "Max">>, key |-> <<"num_agents", "max">>])]]

SuppliedCovering(a) == {i \in DOMAIN packed : InRange(SuppliedRange(i), a)}

\* C8: the catalog is in the order the files were supplied, so that a call
\* returns what the files taken in that order give: the overlay of the first
\* supplied file whose range covers agentLimit, or the default.
C8_CatalogInSuppliedOrder ==
    /\ pc = "ready" => rangeOrder = [i \in DOMAIN packed |-> i]
    /\ Called =>
          LET M == SuppliedCovering(last.agentLimit)
          IN  IF M = {}
              THEN OnDefaultPath
              ELSE IsOverlayOf(Profile(heap, last.ret), packed[Lowest(M)].doc)

\* The objects an envLimits is stored in: itself and what it points to.
Storage(p) == {p, heap[p].Server, heap[p].Cache}

\* C9, the merge: every catalog entry is the overlay of its file.
C9_Overlay ==
    pc = "ready" =>
       \A i \in DOMAIN defaults :
          IsOverlayOf(Profile(heap, defaults[i]), packed[rangeOrder[i]].doc)

\* C9, the storage: no two catalog entries share an object, nor does an entry
\* with a profile returned on the no-match path.
C9_NoSharedStorage ==
    pc = "ready" =>
       /\ \A i, j \in DOMAIN defaults :
             i # j => Storage(defaults[i]) \cap Storage(defaults[j]) = {}
       /\ \A i \in DOMAIN defaults :
             Cardinality(Storage(defaults[i])) = 3
       /\ (Called /\ OnDefaultPath) =>
             \A i \in DOMAIN defaults :
                Storage(defaults[i]) \cap Storage(last.ret) = {}

\* C9, the omitted range: an entry whose file holds no num_agents has the range
\* (0, platform-max-int] and so covers every agentLimit > 0: a call with
\* agentLimit > 0 against a catalog holding such an entry returns an entry.
C9_OmittedRangeCoversAll ==
    pc = "ready" =>
       \A i \in DOMAIN defaults :
          "num_agents" \notin DOMAIN packed[rangeOrder[i]].doc =>
             /\ heap[defaults[i]].Agents =
                   [Min |-> W(0), Max |-> SignedMax(IntBits(GOARCH))]
             /\ (Called /\ WLess(W(0), last.agentLimit)) =>
                   last.ret \in Range(defaults)

\* C9: the default-overlay merge, with all three of its parts.
C9_DefaultOverlayMerge ==
    C9_Overlay /\ C9_NoSharedStorage /\ C9_OmittedRangeCoversAll

\* C10: the profile returned on the no-match path holds, in every field, the
\* default constant of that field's own kind.
C10_DefaultsOfOwnKind ==
    (Called /\ OnDefaultPath) =>
       LET p == Profile(heap, last.ret)
       IN  /\ p.RecommendedRAM = 0
           /\ p.Server.PolicyThrottle = defaultPolicyThrottle
           /\ p.Server.MaxConnections = defaultMaxConnections
           /\ p.Server.CheckinLimit =
                 [Interval |-> defaultCheckinInterval, Burst |-> defaultCheckinBurst,
                  Max |-> defaultCheckinMax, MaxBody |-> defaultCheckinMaxBody]
           /\ p.Server.ArtifactLimit =
                 [Interval |-> defaultArtifactInterval, Burst |-> defaultArtifactBurst,
                  Max |-> defaultArtifactMax, MaxBody |-> defaultArtifactMaxBody]
           /\ p.Server.EnrollLimit =
                 [Interval |-> defaultEnrollInterval, Burst |-> defaultEnrollBurst,
                  Max |-> defaultEnrollMax, MaxBody |-> defaultEnrollMaxBody]
           /\ p.Server.AckLimit =
                 [Interval |-> defaultAckInterval, Burst |-> defaultAckBurst,
                  Max |-> defaultAckMax, MaxBody |-> defaultAckMaxBody]
           /\ p.Cache = [NumCounters |-> defaultCacheNumCounters,
                         MaxCost     |-> defaultCacheMaxCost]

====
